---- MODULE Spec2Model ----
(***************************************************************************)
(* A model of the shop-bot orchestration layer:                            *)
(*   - GoogleAIService (app/services/google-ai.ts): keyword intent         *)
(*     classification, response synthesis, the in-memory session map;      *)
(*   - ShopifyMCPServer (same file): the CallTool dispatch and its six     *)
(*     handlers over the in-memory cart store.                             *)
(* Text is modelled as a sequence of one-character strings, so that        *)
(* lower-casing, substring search and the regular expressions of the code  *)
(* are computed, character by character, as the code computes them.        *)
(***************************************************************************)
EXTENDS Integers, Sequences, FiniteSets, TLC

(***************************************************************************)
(* Optional values (undefined / null of the source).                       *)
(***************************************************************************)
None == <<>>
Some(v) == <<v>>
IsSome(o) == o # <<>>
Get(o) == o[1]

(***************************************************************************)
(* Characters and strings.                                                 *)
(***************************************************************************)
UpperChars == <<"A", "B", "C", "D", "E", "F", "G", "H", "I", "J", "K", "L", "M",
  "N", "O", "P", "Q", "R", "S", "T", "U", "V", "W", "X", "Y", "Z">>
LowerChars == <<"a", "b", "c", "d", "e", "f", "g", "h", "i", "j", "k", "l", "m",
  "n", "o", "p", "q", "r", "s", "t", "u", "v", "w", "x", "y", "z">>
Digits == {"0", "1", "2", "3", "4", "5", "6", "7", "8", "9"}
\* \s of a JavaScript regular expression and the characters trim() strips
WhiteSpace == {" ", "\t", "\n", "\r"}
\* the characters '.' of a regular expression does not match
LineTerminators == {"\n", "\r"}

\* String.prototype.toLowerCase, one character
toLowerChar(c) ==
  IF \E i \in 1..26 : UpperChars[i] = c
  THEN LowerChars[CHOOSE i \in 1..26 : UpperChars[i] = c]
  ELSE c

\* String.prototype.toLowerCase
toLowerCase(s) == [i \in 1..Len(s) |-> toLowerChar(s[i])]

\* the text s[from..] (1-based), empty when from is past the end
Drop(s, from) == SubSeq(s, from, Len(s))

\* sub occurs in s at position i (1-based)
OccursAt(s, sub, i) ==
  /\ i >= 1
  /\ i + Len(sub) - 1 <= Len(s)
  /\ SubSeq(s, i, i + Len(sub) - 1) = sub

\* String.prototype.includes
includes(s, sub) == \E i \in 1..(Len(s) + 1) : OccursAt(s, sub, i)

\* the longest prefix of s whose characters all lie in the set cs
RECURSIVE TakeWhile(_, _)
TakeWhile(s, cs) ==
  IF s = <<>> \/ s[1] \notin cs THEN <<>>
  ELSE <<s[1]>> \o TakeWhile(Tail(s), cs)

\* the longest prefix of s none of whose characters lies in the set cs
RECURSIVE TakeUntil(_, _)
TakeUntil(s, cs) ==
  IF s = <<>> \/ s[1] \in cs THEN <<>>
  ELSE <<s[1]>> \o TakeUntil(Tail(s), cs)

RECURSIVE trimStart(_)
trimStart(s) ==
  IF s = <<>> \/ s[1] \notin WhiteSpace THEN s ELSE trimStart(Tail(s))

RECURSIVE trimEnd(_)
trimEnd(s) ==
  IF s = <<>> \/ s[Len(s)] \notin WhiteSpace THEN s
  ELSE trimEnd(SubSeq(s, 1, Len(s) - 1))

\* String.prototype.trim
trim(s) == trimEnd(trimStart(s))

\* String.prototype.split(sep) for a one-character separator: always at
\* least one word, empty words between adjacent separators
RECURSIVE split(_, _)
split(s, sep) ==
  IF \A i \in 1..Len(s) : s[i] # sep THEN <<s>>
  ELSE LET i == CHOOSE j \in 1..Len(s) :
                  s[j] = sep /\ \A k \in 1..(j - 1) : s[k] # sep
       IN <<SubSeq(s, 1, i - 1)>> \o split(Drop(s, i + 1), sep)

\* Array.prototype.join(sep)
RECURSIVE join(_, _)
join(words, sep) ==
  IF words = <<>> THEN <<>>
  ELSE IF Len(words) = 1 THEN words[1]
  ELSE words[1] \o sep \o join(Tail(words), sep)

\* Array.prototype.filter(word => !excluded.includes(word))
RECURSIVE filterNotIn(_, _)
filterNotIn(xs, excluded) ==
  IF xs = <<>> THEN <<>>
  ELSE (IF xs[1] \in excluded THEN <<>> ELSE <<xs[1]>>)
       \o filterNotIn(Tail(xs), excluded)

(***************************************************************************)
(* ChatIntent and the keywords of analyzeIntent.                           *)
(***************************************************************************)
PRODUCT_SEARCH == "product_search"
ADD_TO_CART == "add_to_cart"
REMOVE_FROM_CART == "remove_from_cart"
VIEW_CART == "view_cart"
CHECKOUT == "checkout"
ORDER_STATUS == "order_status"
GENERAL_HELP == "general_help"
GREETING == "greeting"

ChatIntent == {PRODUCT_SEARCH, ADD_TO_CART, REMOVE_FROM_CART, VIEW_CART,
               CHECKOUT, ORDER_STATUS, GENERAL_HELP, GREETING}

kw_hello == <<"h", "e", "l", "l", "o">>
kw_hi == <<"h", "i">>
kw_hey == <<"h", "e", "y">>
kw_search == <<"s", "e", "a", "r", "c", "h">>
kw_find == <<"f", "i", "n", "d">>
kw_looking_for == <<"l", "o", "o", "k", "i", "n", "g", " ", "f", "o", "r">>
kw_show_me == <<"s", "h", "o", "w", " ", "m", "e">>
kw_add_to_cart == <<"a", "d", "d", " ", "t", "o", " ", "c", "a", "r", "t">>
kw_buy == <<"b", "u", "y">>
kw_purchase == <<"p", "u", "r", "c", "h", "a", "s", "e">>
kw_remove == <<"r", "e", "m", "o", "v", "e">>
kw_delete == <<"d", "e", "l", "e", "t", "e">>
kw_take_out == <<"t", "a", "k", "e", " ", "o", "u", "t">>
kw_cart == <<"c", "a", "r", "t">>
kw_basket == <<"b", "a", "s", "k", "e", "t">>
kw_checkout == <<"c", "h", "e", "c", "k", "o", "u", "t">>
kw_pay == <<"p", "a", "y">>
kw_order_now == <<"o", "r", "d", "e", "r", " ", "n", "o", "w">>
kw_order_status == <<"o", "r", "d", "e", "r", " ", "s", "t", "a", "t", "u", "s">>
kw_track == <<"t", "r", "a", "c", "k">>
kw_delivery == <<"d", "e", "l", "i", "v", "e", "r", "y">>

\* analyzeIntent with the cart/basket check moved ahead of the add-to-cart one
analyzeIntent_cartFirst(message, context) ==
  LET lowerMessage == toLowerCase(message) IN
  IF \/ includes(lowerMessage, kw_hello)
     \/ includes(lowerMessage, kw_hi)
     \/ includes(lowerMessage, kw_hey)
  THEN GREETING
  ELSE IF \/ includes(lowerMessage, kw_search)
          \/ includes(lowerMessage, kw_find)
          \/ includes(lowerMessage, kw_looking_for)
          \/ includes(lowerMessage, kw_show_me)
  THEN PRODUCT_SEARCH
  ELSE IF includes(lowerMessage, kw_cart) \/ includes(lowerMessage, kw_basket)
  THEN VIEW_CART
  ELSE IF \/ includes(lowerMessage, kw_add_to_cart)
          \/ includes(lowerMessage, kw_buy)
          \/ includes(lowerMessage, kw_purchase)
  THEN ADD_TO_CART
  ELSE IF \/ includes(lowerMessage, kw_remove)
          \/ includes(lowerMessage, kw_delete)
          \/ includes(lowerMessage, kw_take_out)
  THEN REMOVE_FROM_CART
  ELSE IF \/ includes(lowerMessage, kw_checkout)
          \/ includes(lowerMessage, kw_pay)
          \/ includes(lowerMessage, kw_order_now)
  THEN CHECKOUT
  ELSE IF \/ includes(lowerMessage, kw_order_status)
          \/ includes(lowerMessage, kw_track)
          \/ includes(lowerMessage, kw_delivery)
  THEN ORDER_STATUS
  ELSE GENERAL_HELP

\* GoogleAIService.analyzeIntent; the context argument is never read
analyzeIntent(message, context) ==
  LET lowerMessage == toLowerCase(message) IN
  IF \/ includes(lowerMessage, kw_hello)
     \/ includes(lowerMessage, kw_hi)
     \/ includes(lowerMessage, kw_hey)
  THEN GREETING
  ELSE IF \/ includes(lowerMessage, kw_search)
          \/ includes(lowerMessage, kw_find)
          \/ includes(lowerMessage, kw_looking_for)
          \/ includes(lowerMessage, kw_show_me)
  THEN PRODUCT_SEARCH
  ELSE IF \/ includes(lowerMessage, kw_add_to_cart)
          \/ includes(lowerMessage, kw_buy)
          \/ includes(lowerMessage, kw_purchase)
  THEN ADD_TO_CART
  ELSE IF \/ includes(lowerMessage, kw_remove)
          \/ includes(lowerMessage, kw_delete)
          \/ includes(lowerMessage, kw_take_out)
  THEN REMOVE_FROM_CART
  ELSE IF includes(lowerMessage, kw_cart) \/ includes(lowerMessage, kw_basket)
  THEN VIEW_CART
  ELSE IF \/ includes(lowerMessage, kw_checkout)
          \/ includes(lowerMessage, kw_pay)
          \/ includes(lowerMessage, kw_order_now)
  THEN CHECKOUT
  ELSE IF \/ includes(lowerMessage, kw_order_status)
          \/ includes(lowerMessage, kw_track)
          \/ includes(lowerMessage, kw_delivery)
  THEN ORDER_STATUS
  ELSE GENERAL_HELP

(***************************************************************************)
(* extractSearchQuery and extractOrderId.                                  *)
(***************************************************************************)
Min(S) == CHOOSE x \in S : \A y \in S : x <= y

\* the literal prefixes of the patterns /looking for (.+)/i ... /need (.+)/i,
\* in the order of the patterns array
searchPatterns == <<
  <<"l", "o", "o", "k", "i", "n", "g", " ", "f", "o", "r", " ">>,
  <<"s", "e", "a", "r", "c", "h", " ", "f", "o", "r", " ">>,
  <<"f", "i", "n", "d", " ">>,
  <<"s", "h", "o", "w", " ", "m", "e", " ">>,
  <<"i", " ", "w", "a", "n", "t", " ">>,
  <<"n", "e", "e", "d", " ">>>>

\* message.match(/<prefix>(.+)/i): the leftmost case-insensitive occurrence of
\* the prefix that is followed by a character '.' matches; the group is the
\* greedy run of such characters. None when there is no match.
matchPrefixCapture(message, prefix) ==
  LET lower == toLowerCase(message)
      starts == {i \in 1..Len(message) :
                   /\ OccursAt(lower, prefix, i)
                   /\ i + Len(prefix) <= Len(message)
                   /\ message[i + Len(prefix)] \notin LineTerminators}
  IN IF starts = {} THEN None
     ELSE Some(TakeUntil(Drop(message, Min(starts) + Len(prefix)),
                         LineTerminators))

stopWords == {<<"i">>,
              <<"a", "m">>,
              <<"l", "o", "o", "k", "i", "n", "g">>,
              <<"f", "o", "r">>,
              <<"a">>,
              <<"a", "n">>,
              <<"t", "h", "e">>,
              <<"s", "o", "m", "e">>,
              <<"a", "n", "y">>}

\* extractSearchQuery that returns the capture as it was matched
extractSearchQuery_noTrim(message) ==
  LET matching == {k \in 1..Len(searchPatterns) :
                     IsSome(matchPrefixCapture(message, searchPatterns[k]))}
  IN IF matching # {}
     THEN matchPrefixCapture(message, searchPatterns[Min(matching)])
     ELSE LET words == filterNotIn(split(toLowerCase(message), " "), stopWords)
          IN IF Len(words) > 0 THEN Some(join(words, <<" ">>)) ELSE None

\* GoogleAIService.extractSearchQuery: None is null
extractSearchQuery(message) ==
  LET matching == {k \in 1..Len(searchPatterns) :
                     IsSome(matchPrefixCapture(message, searchPatterns[k]))}
  IN IF matching # {}
     THEN Some(trim(Get(matchPrefixCapture(message,
                                           searchPatterns[Min(matching)]))))
     ELSE LET words == filterNotIn(split(toLowerCase(message), " "), stopWords)
          IN IF Len(words) > 0 THEN Some(join(words, <<" ">>)) ELSE None

kw_order == <<"o", "r", "d", "e", "r">>

\* the text after the leftmost match of /order\s+/i that is followed by the
\* given lead-in and then a digit; None when there is no such match
matchOrder(message, leadIn) ==
  LET lower == toLowerCase(message)
      After(i) == Drop(message, i + Len(kw_order))
      Spaces(i) == TakeWhile(After(i), WhiteSpace)
      Rest(i) == Drop(After(i), Len(Spaces(i)) + 1)
      starts == {i \in 1..Len(message) :
                   /\ OccursAt(lower, kw_order, i)
                   /\ Len(Spaces(i)) >= 1
                   /\ OccursAt(Rest(i), leadIn, 1)
                   /\ Len(Rest(i)) > Len(leadIn)
                   /\ Rest(i)[Len(leadIn) + 1] \in Digits}
  IN IF starts = {} THEN None
     ELSE Some(TakeWhile(Drop(Rest(Min(starts)), Len(leadIn) + 1), Digits))

\* message.match(/#(\d+)/)
matchHash(message) ==
  LET starts == {i \in 1..(Len(message) - 1) :
                   message[i] = "#" /\ message[i + 1] \in Digits}
  IN IF starts = {} THEN None
     ELSE Some(TakeWhile(Drop(message, Min(starts) + 1), Digits))

\* extractOrderId that tries the 'order' patterns before '#'
extractOrderId_orderFirst(message) ==
  IF IsSome(matchOrder(message, <<>>)) THEN matchOrder(message, <<>>)
  ELSE IF IsSome(matchOrder(message, <<"#">>))
       THEN matchOrder(message, <<"#">>)
  ELSE IF IsSome(matchHash(message)) THEN matchHash(message)
  ELSE None

\* GoogleAIService.extractOrderId: the patterns /#(\d+)/, /order\s+(\d+)/i,
\* /order\s+#(\d+)/i in this order; None is null
extractOrderId(message) ==
  IF IsSome(matchHash(message)) THEN matchHash(message)
  ELSE IF IsSome(matchOrder(message, <<>>)) THEN matchOrder(message, <<>>)
  ELSE IF IsSome(matchOrder(message, <<"#">>))
       THEN matchOrder(message, <<"#">>)
  ELSE None

\* JavaScript truthiness of a string | null | undefined
truthy(o) == IsSome(o) /\ Get(o) # <<>>

(***************************************************************************)
(* Responses of generateResponse.  A response is a sequence of strings:    *)
(* the fixed texts are single elements, an interpolated ${...} contributes *)
(* its characters.  (The emoji that end some of the texts are left out.)   *)
(***************************************************************************)
GreetingResponse ==
  <<"Hello! Welcome to our store! I'm here to help you find amazing products and make your shopping experience smooth. What can I help you with today?">>
SearchResponse(searchQuery) ==
  <<"Let me search for \"">> \o searchQuery \o <<"\" in our store... ">>
AskSearchResponse ==
  <<"I'd be happy to help you find products! Could you tell me what you're looking for? For example, you could say 'I'm looking for running shoes' or 'Show me winter jackets'.">>
AddToCartResponse ==
  <<"I'll help you add items to your cart! Let me set that up for you... ">>
ShowCartResponse == <<"Let me show you what's in your cart...">>
EmptyCartResponse ==
  <<"Your cart is currently empty. Would you like me to help you find some products to add?">>
CheckoutResponse == <<"Great! Let me start the checkout process for you... ">>
NoCartCheckoutResponse ==
  <<"You don't have any items in your cart yet. Would you like me to help you find some products first?">>
OrderStatusResponse(orderId) ==
  <<"Let me check the status of order ">> \o orderId \o <<"... ">>
AskOrderResponse ==
  <<"I can help you check your order status! Please provide your order number (it usually starts with # followed by numbers).">>
\* what replaces an empty text of the generative model
EmptyAIResponse ==
  <<"I'm here to help! You can ask me to search for products, manage your cart, or check order status. What would you like to do?">>
\* the fallback response when the generative model is not available
FallbackResponse ==
  <<"I'm here to help with your shopping! You can ask me to search for products, add items to cart, or check your orders. What can I do for you?">>

\* what this.model.generateContent(...) can do: reject, or resolve with a
\* response whose text() is empty or some generated text
AIOutcomes == {"throws", "empty", "text"}
GeneratedText == <<"(text generated by the model)">>

\* the messages of the prompt: context.messages.slice(-10)
HistoryWindow == 10

\* Array.prototype.slice(-n)
lastN(xs, n) == IF Len(xs) <= n THEN xs ELSE SubSeq(xs, Len(xs) - n + 1, Len(xs))

\* what a branch of generateResponse that does not consult the model returns
Reply(response, toolCalls) ==
  [response |-> response, toolCalls |-> toolCalls,
   aiCalled |-> FALSE, aiOutcome |-> None, prompt |-> None, threw |-> FALSE]

\* the default branch of generateResponse with the try/catch around the
\* model call left out: a failure of the model propagates
defaultBranch_noCatch(conversationHistory, enabled, hasModel, ai) ==
  [response |-> IF enabled /\ hasModel /\ ai = "text" THEN GeneratedText
                ELSE IF enabled /\ hasModel /\ ai = "empty" THEN EmptyAIResponse
                ELSE FallbackResponse,
   toolCalls |-> <<>>,
   aiCalled |-> enabled /\ hasModel,
   aiOutcome |-> IF enabled /\ hasModel THEN Some(ai) ELSE None,
   prompt |-> IF enabled /\ hasModel THEN Some(conversationHistory) ELSE None,
   threw |-> enabled /\ hasModel /\ ai = "throws"]

\* the default branch of generateResponse: the generative model if it is
\* available, its failure caught, else the fallback response.  ai is the
\* outcome of the model should it be called; aiCalled and aiOutcome record
\* whether it was and what it did, prompt the conversation history it was
\* given.
defaultBranch(conversationHistory, enabled, hasModel, ai) ==
  [response |-> IF enabled /\ hasModel /\ ai = "text" THEN GeneratedText
                ELSE IF enabled /\ hasModel /\ ai = "empty" THEN EmptyAIResponse
                ELSE FallbackResponse,
   toolCalls |-> <<>>,
   aiCalled |-> enabled /\ hasModel,
   aiOutcome |-> IF enabled /\ hasModel THEN Some(ai) ELSE None,
   prompt |-> IF enabled /\ hasModel THEN Some(conversationHistory) ELSE None,
   threw |-> FALSE]

\* GoogleAIService.generateResponse: the switch on the intent
generateResponse(message, context, intent, enabled, hasModel, ai) ==
  LET conversationHistory ==
        [i \in 1..Len(lastN(context.messages, HistoryWindow)) |->
           <<lastN(context.messages, HistoryWindow)[i].role,
             lastN(context.messages, HistoryWindow)[i].content>>]
  IN
  IF intent = GREETING
  THEN Reply(GreetingResponse, <<>>)
  ELSE IF intent = PRODUCT_SEARCH
  THEN LET searchQuery == extractSearchQuery(message) IN
       IF truthy(searchQuery)
       THEN Reply(SearchResponse(Get(searchQuery)),
                  <<[tool |-> "query_products",
                     params |-> [query |-> Get(searchQuery), limit |-> 5]]>>)
       ELSE Reply(AskSearchResponse, <<>>)
  ELSE IF intent = ADD_TO_CART
  THEN Reply(AddToCartResponse,
             IF ~truthy(context.cart_id)
             THEN <<[tool |-> "create_cart", params |-> <<>>]>>
             ELSE <<>>)
  ELSE IF intent = VIEW_CART
  THEN IF truthy(context.cart_id)
       THEN Reply(ShowCartResponse, <<>>)
       ELSE Reply(EmptyCartResponse, <<>>)
  ELSE IF intent = CHECKOUT
  THEN IF truthy(context.cart_id)
       THEN Reply(CheckoutResponse,
                  <<[tool |-> "begin_checkout",
                     params |-> [cart_id |-> Get(context.cart_id)]]>>)
       ELSE Reply(NoCartCheckoutResponse, <<>>)
  ELSE IF intent = ORDER_STATUS
  THEN LET orderId == extractOrderId(message) IN
       IF truthy(orderId)
       THEN Reply(OrderStatusResponse(Get(orderId)),
                  <<[tool |-> "order_status",
                     params |-> [order_id |-> Get(orderId)]]>>)
       ELSE Reply(AskOrderResponse, <<>>)
  ELSE defaultBranch(conversationHistory, enabled, hasModel, ai)

(***************************************************************************)
(* The messages shoppers send in the model of the service.                 *)
(***************************************************************************)
\* Hello!
msg_hello == <<"H", "e", "l", "l", "o", "!">>
\* find shoes
msg_find == <<"f", "i", "n", "d", " ", "s", "h", "o", "e", "s">>
\* Help me checkout
msg_checkout == <<"H", "e", "l", "p", " ", "m", "e", " ", "c", "h", "e", "c", "k", "o", "u", "t">>
\* remove it
msg_remove == <<"r", "e", "m", "o", "v", "e", " ", "i", "t">>
\* thanks
msg_thanks == <<"t", "h", "a", "n", "k", "s">>
ChatMessages == {msg_hello, msg_find, msg_checkout, msg_remove, msg_thanks}

(***************************************************************************)
(* Bounds of the model.                                                    *)
(***************************************************************************)
\* processMessage calls made in one behaviour
MaxCalls == 2
\* the largest reading of the clock
MaxTime == 1

Sessions == {"s1", "s2"}

\* cart ids (uuidv4() of the cart store), as text
CartIds == {<<"c", "1">>, <<"c", "2">>}

(***************************************************************************)
(* State.                                                                  *)
(***************************************************************************)
VARIABLES
  apiKey,         \* process.env.GOOGLE_AI_API_KEY: None when not set
  isEnabled,      \* GoogleAIService.isEnabled
  model,          \* GoogleAIService.model: None is null
  conversations,  \* GoogleAIService.conversations: session id -> context
  now,            \* the clock
  calls,          \* processMessage calls made so far
  lastCall,       \* the last processMessage call: arguments and outcome
  lastOp,         \* the last clearConversation / cleanupOldConversations call
  carts,          \* the cart store of the tool server: cart id -> Cart
  shopifyCalled,  \* whether ShopifyAPIService (the real API) was ever called
  lastTool,       \* the last CallTool request: name, arguments and outcome
  fn_in,          \* a message put to one processMessage call on its own
  fn_out,         \* the outcome of that call, None before it
  messages,       \* ChatInterface: the message list of the chat window
  inputValue,     \* ChatInterface: the text of the input field
  isTyping,       \* ChatInterface: a reply is awaited
  fetcher,        \* ChatInterface: useFetcher(), its state and data
  heap,           \* the ConversationContext objects in-flight calls share
  conversationRefs, \* GoogleAIService.conversations as references into heap
  inflight        \* the processMessage calls in flight, each at an await

serviceVars == <<apiKey, isEnabled, model, conversations, calls, lastCall,
                 lastOp>>
toolVars == <<carts, shopifyCalled, lastTool>>
fnVars == <<fn_in, fn_out>>
uiVars == <<messages, inputValue, isTyping, fetcher>>
asyncVars == <<heap, conversationRefs, inflight>>
vars == <<apiKey, isEnabled, model, conversations, now, calls, lastCall,
          lastOp, carts, shopifyCalled, lastTool, fn_in, fn_out,
          messages, inputValue, isTyping, fetcher,
          heap, conversationRefs, inflight>>

\* a ChatMessage made at time t
newMessage(role, content, metadata, t) ==
  [id |-> <<"msg", t, role>>, role |-> role, content |-> content,
   timestamp |-> t, metadata |-> metadata]

\* push that keeps the stored history to the window of the prompt
push_window(list, message) == lastN(Append(list, message), HistoryWindow)

\* context.messages.push(message)
push(list, message) == Append(list, message)

\* the context processMessage works on: existingContext ||
\* this.conversations.get(sessionId), or a new one
contextFor(conv, sessionId, existingContext, t) ==
  IF IsSome(existingContext) THEN Get(existingContext)
  ELSE IF sessionId \in DOMAIN conv THEN conv[sessionId]
  ELSE [session_id |-> sessionId, messages |-> <<>>, cart_id |-> None,
        current_intent |-> None, last_activity |-> t]

\* Map.prototype.set
MapSet(map, key, value) ==
  [k \in DOMAIN map \cup {key} |-> IF k = key THEN value ELSE map[k]]

\* an earlier exchange, as a caller's context may hold it
earlierMessages ==
  [i \in 1..HistoryWindow |->
     IF i % 2 = 1 THEN newMessage("user", msg_thanks, None, 0)
     ELSE newMessage("assistant", FallbackResponse,
                     Some([intent |-> GENERAL_HELP, tool_calls |-> <<>>]), 0)]

\* the contexts a caller hands to processMessage as existingContext: none, a
\* new context that carries a cart id, or one that holds an earlier exchange
\* as long as the prompt's window
ExistingContexts(sessionId) ==
  {None,
   Some([session_id |-> sessionId, messages |-> <<>>,
         cart_id |-> Some(<<"c", "1">>), current_intent |-> None,
         last_activity |-> 0]),
   Some([session_id |-> sessionId, messages |-> earlierMessages,
         cart_id |-> None, current_intent |-> Some(GENERAL_HELP),
         last_activity |-> 0])}

\* the constructor without the check of the API key
constructed_noKeyCheck(key, ctorThrows) ==
  IF ctorThrows
  THEN [isEnabled |-> FALSE, model |-> None]
  ELSE [isEnabled |-> TRUE, model |-> Some("gemini-1.5-flash")]

\* GoogleAIService.constructor, given whether building the client or the
\* model throws
constructed(key, ctorThrows) ==
  IF ~truthy(key) \/ ctorThrows
  THEN [isEnabled |-> FALSE, model |-> None]
  ELSE [isEnabled |-> TRUE, model |-> Some("gemini-1.5-flash")]

Init ==
  /\ apiKey \in {None, Some(<<"k", "e", "y">>)}
  /\ \E ctorThrows \in BOOLEAN :
       /\ isEnabled = constructed(apiKey, ctorThrows).isEnabled
       /\ model = constructed(apiKey, ctorThrows).model
  /\ conversations = <<>>
  /\ now = 0
  /\ calls = 0
  /\ lastCall = None
  /\ lastOp = None
  /\ carts = <<>>
  /\ shopifyCalled = FALSE
  /\ lastTool = None
  /\ fn_in = <<>>
  /\ fn_out = None
  /\ messages = <<>>
  /\ inputValue = <<>>
  /\ isTyping = FALSE
  /\ fetcher = [state |-> "idle", data |-> None]
  /\ heap = <<>>
  /\ conversationRefs = <<>>
  /\ inflight = <<>>

\* GoogleAIService.processMessage, one whole call: the record of the call
\* (call) and the session map after it (conversations).  When
\* generateResponse throws the call rejects after the user message was pushed
\* onto the context, which is the stored object unless the caller handed one.
processMessage(conv, sessionId, userMessage, existingContext, enabled, hasModel, ai, t) ==
  LET context == contextFor(conv, sessionId, existingContext, t)
      withUser == [context EXCEPT
                     !.messages = push(@, newMessage("user", userMessage, None, t))]
      intent == analyzeIntent(userMessage, withUser)
      gen == generateResponse(userMessage, withUser, intent, enabled, hasModel, ai)
      assistantMessage ==
        newMessage("assistant", gen.response,
                   Some([intent |-> intent,
                         tool_calls |-> [i \in 1..Len(gen.toolCalls) |->
                                           gen.toolCalls[i].tool]]), t)
      updated == [withUser EXCEPT !.messages = push(@, assistantMessage),
                                  !.current_intent = Some(intent),
                                  !.last_activity = t]
      call == [sessionId |-> sessionId, userMessage |-> userMessage,
               existingContext |-> existingContext,
               before |-> IF sessionId \in DOMAIN conv THEN Some(conv[sessionId])
                          ELSE None,
               intent |-> intent, aiCalled |-> gen.aiCalled,
               aiOutcome |-> gen.aiOutcome, prompt |-> gen.prompt,
               threw |-> gen.threw]
  IN IF gen.threw
     THEN [call |-> call @@ [response |-> None, toolCalls |-> <<>>,
                             updatedContext |-> None],
           conversations |-> IF ~IsSome(existingContext) /\ sessionId \in DOMAIN conv
                             THEN MapSet(conv, sessionId, withUser)
                             ELSE conv]
     ELSE [call |-> call @@ [response |-> Some(gen.response),
                             toolCalls |-> gen.toolCalls,
                             updatedContext |-> Some(updated)],
           conversations |-> MapSet(conv, sessionId, updated)]

ProcessMessage ==
  /\ calls < MaxCalls
  /\ \E sessionId \in Sessions, userMessage \in ChatMessages, ai \in AIOutcomes :
       \E existingContext \in ExistingContexts(sessionId) :
         \E done \in {processMessage(conversations, sessionId, userMessage,
                                     existingContext, isEnabled, IsSome(model),
                                     ai, now)} :
           /\ conversations' = done.conversations
           /\ lastCall' = Some(done.call)
  /\ calls' = calls + 1
  /\ UNCHANGED <<apiKey, isEnabled, model, now, lastOp>>
  /\ UNCHANGED toolVars
  /\ UNCHANGED fnVars
  /\ UNCHANGED <<uiVars, asyncVars>>

Next == ProcessMessage

Spec == Init /\ [][Next]_vars

(***************************************************************************)
(* The session map over time: messages, clearConversation and              *)
(* cleanupOldConversations, with the clock counting hours.                 *)
(***************************************************************************)
\* the largest maxAgeHours handed to cleanupOldConversations
MaxAgeHours == 1

\* maxAgeHours: number = 24
DefaultMaxAgeHours == 24

\* GoogleAIService.getConversationContext: None is undefined
getConversationContext(conv, sessionId) ==
  IF sessionId \in DOMAIN conv THEN Some(conv[sessionId]) ELSE None

\* clearConversation that empties the map
clearConversation_all(conv, sessionId) == <<>>

\* GoogleAIService.clearConversation: Map.prototype.delete
clearConversation(conv, sessionId) ==
  [k \in DOMAIN conv \ {sessionId} |-> conv[k]]

\* cleanupOldConversations that also removes a session at the cutoff
cleanupOldConversations_inclusive(conv, maxAgeHours, t) ==
  LET cutoffTime == t - (IF IsSome(maxAgeHours) THEN Get(maxAgeHours)
                         ELSE DefaultMaxAgeHours)
  IN [k \in {id \in DOMAIN conv : ~(conv[id].last_activity <= cutoffTime)}
        |-> conv[k]]

\* GoogleAIService.cleanupOldConversations at time t; maxAgeHours None is
\* the argument left out
cleanupOldConversations(conv, maxAgeHours, t) ==
  LET cutoffTime == t - (IF IsSome(maxAgeHours) THEN Get(maxAgeHours)
                         ELSE DefaultMaxAgeHours)
  IN [k \in {id \in DOMAIN conv : ~(conv[id].last_activity < cutoffTime)}
        |-> conv[k]]

\* the message and the caller's contexts of this specification
SessionMessages == {msg_find}
SessionContexts(sessionId) ==
  {c \in ExistingContexts(sessionId) : c = None \/ Get(c).messages # <<>>}

SessionMessage ==
  /\ calls < MaxCalls
  /\ \E sessionId \in Sessions, userMessage \in SessionMessages :
       \E existingContext \in SessionContexts(sessionId) :
         \E done \in {processMessage(conversations, sessionId, userMessage,
                                     existingContext, isEnabled, IsSome(model),
                                     "text", now)} :
           /\ conversations' = done.conversations
           /\ lastCall' = Some(done.call)
  /\ calls' = calls + 1
  /\ UNCHANGED <<apiKey, isEnabled, model, now, lastOp>>
  /\ UNCHANGED toolVars
  /\ UNCHANGED fnVars
  /\ UNCHANGED <<uiVars, asyncVars>>

ClearConversation ==
  /\ \E sessionId \in Sessions :
       /\ conversations' = clearConversation(conversations, sessionId)
       /\ lastOp' = Some([op |-> "clearConversation", sessionId |-> sessionId,
                          maxAgeHours |-> None, before |-> conversations,
                          at |-> now, calls |-> calls])
  /\ UNCHANGED <<apiKey, isEnabled, model, now, calls, lastCall>>
  /\ UNCHANGED toolVars
  /\ UNCHANGED fnVars
  /\ UNCHANGED <<uiVars, asyncVars>>

CleanupOldConversations ==
  /\ \E maxAgeHours \in {None} \cup {Some(h) : h \in 0..MaxAgeHours} :
       /\ conversations' = cleanupOldConversations(conversations, maxAgeHours, now)
       /\ lastOp' = Some([op |-> "cleanupOldConversations", sessionId |-> "",
                          maxAgeHours |-> maxAgeHours, before |-> conversations,
                          at |-> now, calls |-> calls])
  /\ UNCHANGED <<apiKey, isEnabled, model, now, calls, lastCall>>
  /\ UNCHANGED toolVars
  /\ UNCHANGED fnVars
  /\ UNCHANGED <<uiVars, asyncVars>>

\* time passes: the clock counts hours
Tick ==
  /\ now < MaxTime
  /\ now' = now + 1
  /\ UNCHANGED serviceVars
  /\ UNCHANGED toolVars
  /\ UNCHANGED fnVars
  /\ UNCHANGED <<uiVars, asyncVars>>

NextSessions ==
  SessionMessage \/ ClearConversation \/ CleanupOldConversations \/ Tick

\* a service constructed without an API key
InitSessions == Init /\ apiKey = None

SpecSessions == InitSessions /\ [][NextSessions]_vars

(***************************************************************************)
(* ShopifyMCPServer: the CallTool handler and the six tool handlers.       *)
(* A handler either returns a result or throws; both are values here.      *)
(***************************************************************************)
\* items a cart holds in the model
MaxItems == 1
\* the most products the Shopify API finds for a query
MaxFound == 2

ToolNames == {"query_products", "create_cart", "add_to_cart",
              "remove_from_cart", "begin_checkout", "order_status"}

\* the default of the limit: params.limit || 10
DefaultLimit == 10

Item(productId) ==
  [product_id |-> productId, variant_id |-> "v1", quantity |-> 1]

\* the arguments object of a request, a missing property being None
Args(query, limit, cartId, items, itemIds, orderId) ==
  [query |-> query, limit |-> limit, collection_id |-> None, cart_id |-> cartId,
   items |-> items, item_ids |-> itemIds, order_id |-> orderId]

NoArgs == Args(None, None, None, None, None, None)

OptionalCartIds == {None} \cup {Some(id) : id \in CartIds}

\* the requests of the model: for each tool no arguments object at all
\* (None), or one with the properties the tool reads present or missing
ArgsFor(name) ==
  {None} \cup
  (CASE name = "query_products" ->
          {Some(Args(q, l, None, None, None, None)) :
             q \in {None, Some(<<"s", "h", "o", "e", "s">>)},
             l \in {None, Some(0), Some(1), Some(5)}}
     [] name = "add_to_cart" ->
          {Some(Args(None, None, c, i, None, None)) :
             c \in OptionalCartIds,
             i \in {None, Some(<<>>), Some(<<Item("p1")>>), Some(<<Item("p2")>>)}}
     [] name = "remove_from_cart" ->
          {Some(Args(None, None, c, None, i, None)) :
             c \in OptionalCartIds,
             i \in {None, Some(<<>>), Some(<<"p1">>)}}
     [] name = "begin_checkout" ->
          {Some(Args(None, None, c, None, None, None)) : c \in OptionalCartIds}
     [] name = "order_status" ->
          {Some(Args(None, None, None, None, None, o)) :
             o \in {None, Some(<<"1", "2">>)}}
     [] OTHER -> {Some(NoArgs)})

Throw(handler, message, c) ==
  [handler |-> handler, threw |-> Some(message), result |-> None,
   carts |-> c, api |-> FALSE]
Return(handler, isError, text, c, api) ==
  [handler |-> handler, threw |-> None,
   result |-> Some([isError |-> isError, text |-> text]),
   carts |-> c, api |-> api]

\* the TypeError of reading a property of undefined
TypeErrorReading(property) ==
  <<"Cannot read properties of undefined (reading '", property, "')">>

mockProducts ==
  <<[id |-> "gid://shopify/Product/1", title |-> "Sample Product 1",
     description |-> "A great product for testing", price |-> "$29.99",
     images |-> <<"https://example.com/image1.jpg">>,
     variants |-> <<[id |-> "gid://shopify/ProductVariant/1",
                     title |-> "Default Title", price |-> "$29.99",
                     available |-> TRUE]>>]>>

\* ShopifyAPIService.searchProducts as the tool server sees it: products(first:
\* limit), of which the store finds `found`; a failure of the call is None
searchProducts(first, found) ==
  [i \in 1..(IF first < found THEN first ELSE found) |->
     [id |-> <<"gid://shopify/Product/", i>>]]

\* ShopifyMCPServer.queryProducts(params, request?)
queryProducts(params, request, found, c) ==
  IF IsSome(request)
  THEN IF ~IsSome(params)
       THEN Throw("queryProducts", TypeErrorReading("query"), c)
       ELSE LET limit == Get(params).limit
                first == IF IsSome(limit) /\ Get(limit) # 0 THEN Get(limit)
                         ELSE DefaultLimit
            IN IF ~IsSome(found)
               THEN Return("queryProducts", TRUE,
                           [error |-> <<"Failed to search products: ">>,
                            query |-> Get(params).query], c, TRUE)
               ELSE Return("queryProducts", FALSE,
                           [products |-> searchProducts(first, Get(found)),
                            query |-> Get(params).query,
                            total |-> Len(searchProducts(first, Get(found)))], c, TRUE)
  ELSE IF ~IsSome(params)
  THEN Throw("queryProducts", TypeErrorReading("query"), c)
  ELSE Return("queryProducts", FALSE,
              [products |-> mockProducts, query |-> Get(params).query,
               total |-> Len(mockProducts)], c, FALSE)

\* ShopifyMCPServer.createCart; cartId is the value of uuidv4(), an id no
\* stored cart has
createCart(cartId, c, t) ==
  Return("createCart", FALSE,
         [cart_id |-> cartId, message |-> "Cart created successfully"],
         MapSet(c, cartId, [id |-> cartId, items |-> <<>>,
                            created_at |-> t, updated_at |-> t]),
         FALSE)

\* carts.get(params.cart_id): None is undefined
cartOf(params, c) ==
  IF IsSome(params.cart_id) /\ Get(params.cart_id) \in DOMAIN c
  THEN Some(c[Get(params.cart_id)])
  ELSE None

\* ShopifyMCPServer.addToCart
addToCart(params, c, t) ==
  IF ~IsSome(params)
  THEN Throw("addToCart", TypeErrorReading("cart_id"), c)
  ELSE IF ~IsSome(cartOf(Get(params), c))
  THEN Throw("addToCart", <<"Cart not found">>, c)
  ELSE IF ~IsSome(Get(params).items)
  \* cart.items.push(...undefined): spreading undefined throws a TypeError
  \* before anything is pushed (spread as the runtime implements it)
  THEN Throw("addToCart", <<"undefined is not iterable">>, c)
  ELSE LET cart == [Get(cartOf(Get(params), c)) EXCEPT
                      !.items = @ \o Get(Get(params).items),
                      !.updated_at = t]
       IN Return("addToCart", FALSE,
                 [message |-> "Items added to cart successfully", cart |-> cart],
                 MapSet(c, cart.id, cart), FALSE)

\* cart.items.filter(item => !itemIds.includes(item.product_id))
RECURSIVE withoutProducts(_, _)
withoutProducts(items, itemIds) ==
  IF items = <<>> THEN <<>>
  ELSE (IF \E i \in 1..Len(itemIds) : itemIds[i] = items[1].product_id
        THEN <<>> ELSE <<items[1]>>)
       \o withoutProducts(Tail(items), itemIds)

\* ShopifyMCPServer.removeFromCart
removeFromCart(params, c, t) ==
  IF ~IsSome(params)
  THEN Throw("removeFromCart", TypeErrorReading("cart_id"), c)
  ELSE IF ~IsSome(cartOf(Get(params), c))
  THEN Throw("removeFromCart", <<"Cart not found">>, c)
  \* params.item_ids.includes is evaluated once per item of the cart: with
  \* item_ids undefined it throws unless the cart is empty
  ELSE IF ~IsSome(Get(params).item_ids)
          /\ Get(cartOf(Get(params), c)).items # <<>>
  THEN Throw("removeFromCart", TypeErrorReading("includes"), c)
  ELSE LET old == Get(cartOf(Get(params), c))
           cart == [old EXCEPT
                      !.items = IF IsSome(Get(params).item_ids)
                                THEN withoutProducts(@, Get(Get(params).item_ids))
                                ELSE <<>>,
                      !.updated_at = t]
       IN Return("removeFromCart", FALSE,
                 [message |-> "Items removed from cart successfully",
                  cart |-> cart],
                 MapSet(c, cart.id, cart), FALSE)

\* `https://example.myshopify.com/checkout?cart=${params.cart_id}`
checkoutUrl(cartId) == <<"https://example.myshopify.com/checkout?cart=">> \o cartId

\* beginCheckout without the check for an empty cart
beginCheckout_noEmptyCheck(params, c) ==
  IF ~IsSome(params)
  THEN Throw("beginCheckout", TypeErrorReading("cart_id"), c)
  ELSE IF ~IsSome(cartOf(Get(params), c))
  THEN Throw("beginCheckout", <<"Cart not found">>, c)
  ELSE Return("beginCheckout", FALSE,
              [message |-> "Checkout initiated successfully",
               checkout_url |-> checkoutUrl(Get(Get(params).cart_id)),
               cart |-> Get(cartOf(Get(params), c))],
              c, FALSE)

\* ShopifyMCPServer.beginCheckout
beginCheckout(params, c) ==
  IF ~IsSome(params)
  THEN Throw("beginCheckout", TypeErrorReading("cart_id"), c)
  ELSE IF ~IsSome(cartOf(Get(params), c))
  THEN Throw("beginCheckout", <<"Cart not found">>, c)
  ELSE IF Len(Get(cartOf(Get(params), c)).items) = 0
  THEN Throw("beginCheckout", <<"Cannot checkout empty cart">>, c)
  ELSE Return("beginCheckout", FALSE,
              [message |-> "Checkout initiated successfully",
               checkout_url |-> checkoutUrl(Get(Get(params).cart_id)),
               cart |-> Get(cartOf(Get(params), c))],
              c, FALSE)

\* ShopifyMCPServer.getOrderStatus
getOrderStatus(params, c) ==
  IF ~IsSome(params)
  THEN Throw("getOrderStatus", TypeErrorReading("order_id"), c)
  ELSE Return("getOrderStatus", FALSE,
              [order |-> [id |-> Get(params).order_id, status |-> "fulfilled",
                          total_price |-> "$59.98",
                          created_at |-> "2024-01-15T10:30:00Z",
                          tracking_number |-> "1Z999AA1234567890"]],
              c, FALSE)

\* the switch with the request handed on to queryProducts
dispatch_withRequest(name, args, cartId, found, c, t) ==
  CASE name = "query_products" -> queryProducts(args, Some("request"), found, c)
    [] name = "create_cart" -> createCart(cartId, c, t)
    [] name = "add_to_cart" -> addToCart(args, c, t)
    [] name = "remove_from_cart" -> removeFromCart(args, c, t)
    [] name = "begin_checkout" -> beginCheckout(args, c)
    [] name = "order_status" -> getOrderStatus(args, c)
    [] OTHER -> Throw("none", <<"Unknown tool: ", name>>, c)

\* the switch of the CallTool handler
dispatch(name, args, cartId, found, c, t) ==
  CASE name = "query_products" -> queryProducts(args, None, found, c)
    [] name = "create_cart" -> createCart(cartId, c, t)
    [] name = "add_to_cart" -> addToCart(args, c, t)
    [] name = "remove_from_cart" -> removeFromCart(args, c, t)
    [] name = "begin_checkout" -> beginCheckout(args, c)
    [] name = "order_status" -> getOrderStatus(args, c)
    [] OTHER -> Throw("none", <<"Unknown tool: ", name>>, c)

\* `Error executing ${name}: ${error.message}`
errorText(name, message) == <<"Error executing ", name, ": ">> \o message

\* the CallTool handler with the catch left out: what a handler throws
\* propagates, and the request gets no result
callTool_noCatch(name, args, cartId, found, c, t) ==
  LET out == dispatch(name, args, cartId, found, c, t)
  IN [handler |-> out.handler,
      thrown |-> out.threw,
      threw |-> IsSome(out.threw),
      result |-> out.result,
      carts |-> out.carts,
      api |-> out.api]

\* the CallTool handler: the switch inside try, the catch around it.  thrown
\* is the error the catch caught; threw says whether the handler itself
\* rejects, result is None then.
callTool(name, args, cartId, found, c, t) ==
  LET out == dispatch(name, args, cartId, found, c, t)
  IN [handler |-> out.handler,
      thrown |-> out.threw,
      threw |-> FALSE,
      result |-> IF IsSome(out.threw)
                 THEN Some([isError |-> TRUE,
                            text |-> errorText(name, Get(out.threw))])
                 ELSE out.result,
      carts |-> out.carts,
      api |-> out.api]

CallTool ==
  /\ \E name \in ToolNames \cup {"unknown_tool"} :
       \E args \in ArgsFor(name),
          found \in (IF name = "query_products"
                     THEN {None} \cup {Some(n) : n \in 0..MaxFound}
                     ELSE {None}) :
         \E cartId \in (IF name = "create_cart" THEN CartIds \ DOMAIN carts
                        ELSE {<<>>}) :
           \E done \in {callTool(name, args, cartId, found, carts, now)} :
             /\ \A id \in DOMAIN done.carts :
                  Len(done.carts[id].items) <= MaxItems
             /\ carts' = done.carts
             /\ shopifyCalled' = (shopifyCalled \/ done.api)
             /\ lastTool' = Some([name |-> name, args |-> args,
                                  handler |-> done.handler,
                                  thrown |-> done.thrown,
                                  threw |-> done.threw,
                                  result |-> done.result,
                                  before |-> carts, at |-> now])
  /\ UNCHANGED now
  /\ UNCHANGED serviceVars
  /\ UNCHANGED fnVars
  /\ UNCHANGED <<uiVars, asyncVars>>

NextTools == CallTool \/ Tick

\* the tool server beside a service that was constructed without an API key
InitTools == Init /\ apiKey = None

SpecTools == InitTools /\ [][NextTools]_vars

(***************************************************************************)
(* One processMessage call on its own, over a large set of messages.       *)
(***************************************************************************)
\* the pieces a generated message is made of
MaxPieces == 2

toUpperChar(c) ==
  IF \E i \in 1..26 : LowerChars[i] = c
  THEN UpperChars[CHOOSE i \in 1..26 : LowerChars[i] = c]
  ELSE c
toUpperCase(s) == [i \in 1..Len(s) |-> toUpperChar(s[i])]
capitalize(s) == [i \in 1..Len(s) |-> IF i = 1 THEN toUpperChar(s[i]) ELSE s[i]]

AllKeywords ==
  {kw_hello, kw_hi, kw_hey, kw_search, kw_find, kw_looking_for, kw_show_me,
   kw_add_to_cart, kw_buy, kw_purchase, kw_remove, kw_delete, kw_take_out,
   kw_cart, kw_basket, kw_checkout, kw_pay, kw_order_now, kw_order_status,
   kw_track, kw_delivery}

\* the messages of the test script (test-chatbot.ts)
\* Hello!
test_1 == <<"H", "e", "l", "l", "o", "!">>
\* I'm looking for running shoes
test_2 == <<"I", "'", "m", " ", "l", "o", "o", "k", "i", "n", "g", " ", "f", "o", "r", " ", "r", "u", "n", "n", "i", "n", "g", " ", "s", "h", "o", "e", "s">>
\* Show me products under $50
test_3 == <<"S", "h", "o", "w", " ", "m", "e", " ", "p", "r", "o", "d", "u", "c", "t", "s", " ", "u", "n", "d", "e", "r", " ", "$", "5", "0">>
\* Add the first item to my cart
test_4 == <<"A", "d", "d", " ", "t", "h", "e", " ", "f", "i", "r", "s", "t", " ", "i", "t", "e", "m", " ", "t", "o", " ", "m", "y", " ", "c", "a", "r", "t">>
\* What's in my cart?
test_5 == <<"W", "h", "a", "t", "'", "s", " ", "i", "n", " ", "m", "y", " ", "c", "a", "r", "t", "?">>
\* Help me checkout
test_6 == <<"H", "e", "l", "p", " ", "m", "e", " ", "c", "h", "e", "c", "k", "o", "u", "t">>
TestScriptMessages == {test_1, test_2, test_3, test_4, test_5, test_6}

\* the messages of the quick-action buttons (ChatInterface.tsx)
\* Show me popular products
quick_browse == <<"S", "h", "o", "w", " ", "m", "e", " ", "p", "o", "p", "u", "l", "a", "r", " ", "p", "r", "o", "d", "u", "c", "t", "s">>
\* Show me my cart
quick_cart == <<"S", "h", "o", "w", " ", "m", "e", " ", "m", "y", " ", "c", "a", "r", "t">>
\* Help me checkout
quick_checkout == <<"H", "e", "l", "p", " ", "m", "e", " ", "c", "h", "e", "c", "k", "o", "u", "t">>
\* the buttons: the label and the message onClick puts into the input
QuickActions ==
  {[label |-> "Browse Products", message |-> quick_browse],
   [label |-> "View Cart", message |-> quick_cart],
   [label |-> "Checkout Help", message |-> quick_checkout]}
QuickActionMessages == {a.message : a \in QuickActions}

\* I am looking for 
msg_looking == <<"I", " ", "a", "m", " ", "l", "o", "o", "k", "i", "n", "g", " ", "f", "o", "r", " ">>
\* buy it
msg_buy == <<"b", "u", "y", " ", "i", "t">>
\* track #12
msg_track == <<"t", "r", "a", "c", "k", " ", "#", "1", "2">>
\* track it
msg_track_no == <<"t", "r", "a", "c", "k", " ", "i", "t">>

Pieces == {<<"T">>, <<"h">>, <<"i">>, <<"s">>, <<" ">>, <<"\n">>,
           <<"c", "a", "r", "t">>, <<"P", "a", "y">>,
           <<"f", "i", "n", "d", " ">>, <<"o", "r", "d", "e", "r">>,
           <<"#", "1">>, <<"7">>}

\* the pieces of the messages that ask for an order
OrderPieces == {<<"o", "r", "d", "e", "r", " ">>, <<"O", "R", "D", "E", "R", "\n">>,
                <<"o", "r", "d", "e", "r">>, <<"o", "r", "d", "e", "r", " ", "7">>,
                <<"#">>, <<"#", "1">>, <<"7">>, <<"0">>, <<" ">>, <<"x">>}

\* the concatenations of at most n pieces of the set ps
RECURSIVE Concatenations(_, _)
Concatenations(ps, n) ==
  IF n = 0 THEN {<<>>}
  ELSE Concatenations(ps, n - 1)
       \cup {m \o p : m \in Concatenations(ps, n - 1), p \in ps}

PieceMessages(n) == Concatenations(Pieces, n)

\* track <pieces>
OrderMessages(n) ==
  {<<"t", "r", "a", "c", "k", " ">> \o m : m \in Concatenations(OrderPieces, n)}

\* every keyword alone in upper case and inside a word, every two keywords
\* in one message, the messages of the test script and of the quick actions,
\* and the generated ones, among them the ones that ask for an order
FnMessages ==
  {toUpperCase(k) : k \in AllKeywords}
  \cup {<<"x">> \o k \o <<"y">> : k \in AllKeywords}
  \cup {capitalize(k1) \o <<" ">> \o k2 : k1 \in AllKeywords, k2 \in AllKeywords}
  \cup TestScriptMessages \cup QuickActionMessages \cup ChatMessages
  \cup {msg_looking, msg_buy, msg_track, msg_track_no}
  \cup PieceMessages(MaxPieces)
  \cup OrderMessages(MaxPieces)

InitFn ==
  /\ apiKey \in {None, Some(<<"k", "e", "y">>)}
  /\ \E ctorThrows \in BOOLEAN :
       /\ isEnabled = constructed(apiKey, ctorThrows).isEnabled
       /\ model = constructed(apiKey, ctorThrows).model
  /\ conversations = <<>>
  /\ now = 0
  /\ calls = 0
  /\ lastCall = None
  /\ lastOp = None
  /\ carts = <<>>
  /\ shopifyCalled = FALSE
  /\ lastTool = None
  /\ fn_in \in FnMessages
  /\ fn_out = None
  /\ messages = <<>>
  /\ inputValue = <<>>
  /\ isTyping = FALSE
  /\ fetcher = [state |-> "idle", data |-> None]
  /\ heap = <<>>
  /\ conversationRefs = <<>>
  /\ inflight = <<>>

\* processMessage("s1", fn_in, existingContext) on a new service
Respond ==
  /\ fn_out = None
  /\ \E existingContext \in ExistingContexts("s1"), ai \in AIOutcomes :
       fn_out' = Some(processMessage(conversations, "s1", fn_in, existingContext,
                                     isEnabled, IsSome(model), ai, now).call)
  /\ UNCHANGED fn_in
  /\ UNCHANGED <<now, serviceVars, toolVars>>
  /\ UNCHANGED <<uiVars, asyncVars>>

NextFn == Respond

SpecFn == InitFn /\ [][NextFn]_vars

(***************************************************************************)
(* ChatInterface (ChatInterface.tsx): the message list, the input and the  *)
(* fetcher that posts a message to /api/chat.  The effect on               *)
(* [fetcher.data, fetcher.state] runs with every change of the fetcher.    *)
(***************************************************************************)
\* messages sent in one behaviour of the chat window
MaxSends == 2

\* a ChatMessage of the chat window; isLoading left out is FALSE
uiMessage(kind, role, content, isLoading, t) ==
  [id |-> <<"msg", t, kind>>, role |-> role, content |-> content,
   timestamp |-> t, isLoading |-> isLoading]

\* prev.filter(msg => !msg.isLoading)
withoutLoading(list) == SelectSeq(list, LAMBDA msg : ~msg.isLoading)

\* a text a response may carry: left out, empty, or some text
OptionalTexts == {None, Some(<<>>), Some(<<"o", "k">>)}

\* fetcher.data as { success, response?, error? }
FetcherData == [success : BOOLEAN, response : OptionalTexts, error : OptionalTexts]

\* what is typed into the input field
InputValues == {<<>>, <<" ">>, <<" ", "h", "i", " ">>}

\* the effect that handles the fetcher's response, run with the fetcher f on
\* the message list and isTyping: the state it leaves
fetcherEffect(list, typing, f, t) ==
  IF IsSome(f.data) /\ f.state = "idle"
  THEN LET response == Get(f.data) IN
       [messages |->
          IF response.success /\ truthy(response.response)
          THEN Append(withoutLoading(list),
                      uiMessage("assistant", "assistant",
                                Get(response.response), FALSE, t))
          ELSE IF truthy(response.error)
          THEN Append(withoutLoading(list),
                      uiMessage("error", "assistant",
                                <<"Sorry, I encountered an error: ">>
                                  \o Get(response.error), FALSE, t))
          ELSE list,
        isTyping |-> FALSE]
  ELSE [messages |-> list, isTyping |-> typing]

\* TextField onChange; the field is disabled while isTyping
ChangeInput ==
  /\ ~isTyping
  /\ inputValue' \in InputValues
  /\ UNCHANGED <<messages, isTyping, fetcher>>
  /\ UNCHANGED <<now, serviceVars, toolVars, fnVars, asyncVars>>

\* a quick-action button; the buttons are disabled while isTyping
QuickAction ==
  /\ ~isTyping
  /\ \E a \in QuickActions : inputValue' = a.message
  /\ UNCHANGED <<messages, isTyping, fetcher>>
  /\ UNCHANGED <<now, serviceVars, toolVars, fnVars, asyncVars>>

\* handleSendMessage, and the effect's run on the fetcher's new state
HandleSendMessage ==
  /\ ~(trim(inputValue) = <<>> \/ isTyping)
  /\ Len(messages) < 2 * MaxSends
  /\ LET userMessage == uiMessage("user", "user", trim(inputValue), FALSE, now)
         loadingMessage == uiMessage("loading", "assistant", <<"Thinking...">>,
                                     TRUE, now)
         submitted == [state |-> "submitting", data |-> fetcher.data]
         after == fetcherEffect(messages \o <<userMessage, loadingMessage>>,
                                TRUE, submitted, now)
     IN /\ messages' = after.messages
        /\ isTyping' = after.isTyping
        /\ fetcher' = submitted
  /\ inputValue' = <<>>
  /\ UNCHANGED <<now, serviceVars, toolVars, fnVars, asyncVars>>

\* the action of /api/chat returned: the fetcher holds its data and loads
FetcherLoading ==
  /\ fetcher.state = "submitting"
  /\ \E data \in FetcherData :
       LET loading == [state |-> "loading", data |-> Some(data)]
           after == fetcherEffect(messages, isTyping, loading, now)
       IN /\ fetcher' = loading
          /\ messages' = after.messages
          /\ isTyping' = after.isTyping
  /\ UNCHANGED inputValue
  /\ UNCHANGED <<now, serviceVars, toolVars, fnVars, asyncVars>>

\* the fetcher returns to idle with its data and the effect handles it
FetcherIdle ==
  /\ fetcher.state = "loading"
  /\ LET idle == [state |-> "idle", data |-> fetcher.data]
         after == fetcherEffect(messages, isTyping, idle, now)
     IN /\ fetcher' = idle
        /\ messages' = after.messages
        /\ isTyping' = after.isTyping
  /\ UNCHANGED inputValue
  /\ UNCHANGED <<now, serviceVars, toolVars, fnVars, asyncVars>>

NextUI ==
  ChangeInput \/ QuickAction \/ HandleSendMessage \/ FetcherLoading \/ FetcherIdle

\* the chat window as mounted, without initialMessages
InitUI == Init /\ apiKey = None

SpecUI == InitUI /\ [][NextUI]_vars

(***************************************************************************)
(* processMessage calls in flight at once.  A call runs up to an await,    *)
(* yields, and goes on when the awaited promise settles; between two       *)
(* awaits it runs alone.  Contexts are objects: a call holds a reference   *)
(* (context), and so does the session map.                                 *)
(***************************************************************************)
\* the calls of one behaviour
CallIds == {"a", "b"}

\* a call that was not made yet
NotCalled ==
  [pc |-> "not called", sessionId |-> "", userMessage |-> <<>>, context |-> 0,
   intent |-> None, generated |-> None, inFlightAtStart |-> {}]

\* the calls between their first line and their return
InFlight(flights) ==
  {c \in CallIds :
     flights[c].pc \in {"await analyzeIntent", "await generateResponse"}}

\* this.conversations.set(sessionId, context)
store(refs, sessionId, context) == MapSet(refs, sessionId, context)

\* processMessage up to `await this.analyzeIntent(...)`: the context is the
\* stored object or a new one, and the user message is pushed onto it
Start ==
  /\ \E c \in CallIds, sessionId \in Sessions, userMessage \in ChatMessages :
       /\ inflight[c].pc = "not called"
       /\ LET stored == sessionId \in DOMAIN conversationRefs
              context == IF stored THEN conversationRefs[sessionId]
                         ELSE Len(heap) + 1
              objects == IF stored THEN heap
                         ELSE Append(heap,
                                     [session_id |-> sessionId, messages |-> <<>>,
                                      cart_id |-> None, current_intent |-> None,
                                      last_activity |-> now])
          IN /\ heap' = [objects EXCEPT
                           ![context].messages =
                             push(@, newMessage("user", userMessage, None, now))]
             /\ inflight' = [inflight EXCEPT
                               ![c] = [pc |-> "await analyzeIntent",
                                       sessionId |-> sessionId,
                                       userMessage |-> userMessage,
                                       context |-> context,
                                       intent |-> None, generated |-> None,
                                       inFlightAtStart |-> InFlight(inflight)]]
  /\ UNCHANGED conversationRefs
  /\ UNCHANGED <<now, serviceVars, toolVars, fnVars, uiVars>>

\* analyzeIntent settled: generateResponse runs on the context as it is now,
\* up to its return or to `await this.model.generateContent(...)`
Generate ==
  /\ \E c \in CallIds, ai \in AIOutcomes :
       /\ inflight[c].pc = "await analyzeIntent"
       /\ LET call == inflight[c]
              intent == analyzeIntent(call.userMessage, heap[call.context])
          IN inflight' = [inflight EXCEPT
                            ![c].pc = "await generateResponse",
                            ![c].intent = Some(intent),
                            ![c].generated =
                              Some(generateResponse(call.userMessage,
                                                    heap[call.context], intent,
                                                    isEnabled, IsSome(model), ai))]
  /\ UNCHANGED <<heap, conversationRefs>>
  /\ UNCHANGED <<now, serviceVars, toolVars, fnVars, uiVars>>

\* generateResponse settled: the assistant message is pushed onto the call's
\* context, the context is updated and stored under the session id
Finish ==
  /\ \E c \in CallIds :
       /\ inflight[c].pc = "await generateResponse"
       /\ LET call == inflight[c]
              gen == Get(call.generated)
              intent == Get(call.intent)
              assistantMessage ==
                newMessage("assistant", gen.response,
                           Some([intent |-> intent,
                                 tool_calls |-> [i \in 1..Len(gen.toolCalls) |->
                                                   gen.toolCalls[i].tool]]), now)
          IN IF gen.threw
             THEN /\ inflight' = [inflight EXCEPT ![c].pc = "rejected"]
                  /\ UNCHANGED <<heap, conversationRefs>>
             ELSE /\ heap' = [heap EXCEPT
                                ![call.context].messages = push(@, assistantMessage),
                                ![call.context].current_intent = Some(intent),
                                ![call.context].last_activity = now]
                  /\ conversationRefs' = store(conversationRefs, call.sessionId,
                                               call.context)
                  /\ inflight' = [inflight EXCEPT ![c].pc = "returned"]
  /\ UNCHANGED <<now, serviceVars, toolVars, fnVars, uiVars>>

NextAsync == Start \/ Generate \/ Finish

\* a service whose session map is empty or holds the context of an earlier
\* exchange of session s1
InitAsync ==
  /\ apiKey \in {None, Some(<<"k", "e", "y">>)}
  /\ \E ctorThrows \in BOOLEAN :
       /\ isEnabled = constructed(apiKey, ctorThrows).isEnabled
       /\ model = constructed(apiKey, ctorThrows).model
  /\ conversations = <<>>
  /\ now = 0
  /\ calls = 0
  /\ lastCall = None
  /\ lastOp = None
  /\ carts = <<>>
  /\ shopifyCalled = FALSE
  /\ lastTool = None
  /\ fn_in = <<>>
  /\ fn_out = None
  /\ messages = <<>>
  /\ inputValue = <<>>
  /\ isTyping = FALSE
  /\ fetcher = [state |-> "idle", data |-> None]
  /\ \/ /\ heap = <<>>
        /\ conversationRefs = <<>>
     \/ /\ heap = <<[session_id |-> "s1", messages |-> earlierMessages,
                     cart_id |-> None, current_intent |-> Some(GENERAL_HELP),
                     last_activity |-> 0]>>
        /\ conversationRefs = [id \in {"s1"} |-> 1]
  /\ inflight = [c \in CallIds |-> NotCalled]

SpecAsync == InitAsync /\ [][NextAsync]_vars

(***************************************************************************)
(* The claims.                                                             *)
(***************************************************************************)
\* the keyword groups in the order the claim C1 lists them
C1_Groups ==
  <<[intent |-> GREETING, keywords |-> {kw_hello, kw_hi, kw_hey}],
    [intent |-> PRODUCT_SEARCH,
     keywords |-> {kw_search, kw_find, kw_looking_for, kw_show_me}],
    [intent |-> ADD_TO_CART, keywords |-> {kw_add_to_cart, kw_buy, kw_purchase}],
    [intent |-> REMOVE_FROM_CART, keywords |-> {kw_remove, kw_delete, kw_take_out}],
    [intent |-> VIEW_CART, keywords |-> {kw_cart, kw_basket}],
    [intent |-> CHECKOUT, keywords |-> {kw_checkout, kw_pay, kw_order_now}],
    [intent |-> ORDER_STATUS,
     keywords |-> {kw_order_status, kw_track, kw_delivery}]>>

\* the keyword occurs in the message, letter case ignored
C1_Occurs(keyword, message) ==
  \E i \in 1..Len(message) :
    /\ i + Len(keyword) - 1 <= Len(message)
    /\ \A j \in 1..Len(keyword) :
         toLowerChar(message[i + j - 1]) = toLowerChar(keyword[j])

C1_Matching(message) ==
  {g \in 1..Len(C1_Groups) :
     \E k \in C1_Groups[g].keywords : C1_Occurs(k, message)}

C1_Expected(message) ==
  IF C1_Matching(message) = {} THEN GENERAL_HELP
  ELSE C1_Groups[Min(C1_Matching(message))].intent

\* C1: the intent of a message is that of the first keyword group, in the
\* order greeting, product search, add to cart, remove from cart, view cart,
\* checkout, order status, one of whose keywords occurs in the message with
\* letter case ignored, and general help when none occurs; it is the same
\* whatever context the call works on.
C1_AnalyzeIntentFirstGroup ==
  IsSome(fn_out) => Get(fn_out).intent = C1_Expected(fn_in)

\* a mixed-case message with keywords of two groups, classified as the earlier
\* group, in a call that was handed a context
C1_Witness ==
  /\ IsSome(fn_out)
  /\ Get(fn_out).intent = ADD_TO_CART
  /\ C1_Occurs(kw_cart, fn_in)
  /\ fn_in # toLowerCase(fn_in)
  /\ IsSome(Get(fn_out).existingContext)

CommerceIntents == {PRODUCT_SEARCH, ADD_TO_CART, REMOVE_FROM_CART, VIEW_CART,
                    CHECKOUT, ORDER_STATUS}

\* the call was answered by the default branch of generateResponse: the
\* generative model was called, or the response is one only that branch gives
AnsweredByDefaultBranch(call) ==
  \/ call.aiCalled
  \/ /\ IsSome(call.response)
     /\ Get(call.response) \in {FallbackResponse, EmptyAIResponse, GeneratedText}

\* C2: a message classified as one of the six commerce-action intents is
\* never answered by the default branch of generateResponse.
C2_CommerceIntentHasOwnBranch ==
  (IsSome(fn_out) /\ Get(fn_out).intent \in CommerceIntents)
    => ~AnsweredByDefaultBranch(Get(fn_out))

\* the switch of generateResponse has no case for the intent
ReachesDefaultBranch(intent) ==
  intent \notin {GREETING, PRODUCT_SEARCH, ADD_TO_CART, VIEW_CART, CHECKOUT,
                 ORDER_STATUS}

\* the last two messages of a history are the user message with this text and
\* the assistant message with this response
EndsWithExchange(list, userMessage, response) ==
  /\ Len(list) >= 2
  /\ list[Len(list) - 1].role = "user"
  /\ list[Len(list) - 1].content = userMessage
  /\ list[Len(list)].role = "assistant"
  /\ list[Len(list)].content = response

\* the history a session holds in a session map, empty when it holds none
StoredMessages(conv, sessionId) ==
  IF sessionId \in DOMAIN conv THEN conv[sessionId].messages ELSE <<>>

\* C4: a processMessage call made without an existingContext appends exactly
\* two messages to the stored history of its session, the user message with
\* the given text and then the assistant message with the returned response;
\* the earlier messages stay as they were and in place, and the history is
\* never cut, however long it is.
C4_AppendsUserThenAssistant ==
  (IsSome(lastCall) /\ ~IsSome(Get(lastCall).existingContext)) =>
    LET call == Get(lastCall)
        was == IF IsSome(call.before) THEN Get(call.before).messages ELSE <<>>
        stored == StoredMessages(conversations, call.sessionId)
    IN /\ call.sessionId \in DOMAIN conversations
       /\ IsSome(call.response)
       /\ Len(stored) = Len(was) + 2
       /\ SubSeq(stored, 1, Len(was)) = was
       /\ EndsWithExchange(stored, call.userMessage, Get(call.response))

\* a second call on a session whose stored history is already longer than the
\* window of the prompt
C4_Witness ==
  /\ IsSome(lastCall)
  /\ ~IsSome(Get(lastCall).existingContext)
  /\ IsSome(Get(lastCall).before)
  /\ Len(Get(Get(lastCall).before).messages) > HistoryWindow
  /\ Len(conversations[Get(lastCall).sessionId].messages)
       = Len(Get(Get(lastCall).before).messages) + 2

\* C5: when GOOGLE_AI_API_KEY is not set, no processMessage call of any
\* sequence invokes the generative model or throws, and a message that
\* reaches the default branch gets the fallback response with no tool calls.
C5_DisabledWithoutKey ==
  (~IsSome(apiKey) /\ IsSome(lastCall)) =>
    LET call == Get(lastCall)
    IN /\ ~isEnabled
       /\ ~call.aiCalled
       /\ ~call.threw
       /\ ReachesDefaultBranch(call.intent) =>
            /\ call.response = Some(FallbackResponse)
            /\ call.toolCalls = <<>>

\* without the key, the second call of a sequence reaches the default branch
C5_Witness ==
  /\ ~IsSome(apiKey)
  /\ calls = 2
  /\ IsSome(lastCall)
  /\ Get(lastCall).intent = GENERAL_HELP
  /\ Get(lastCall).response = Some(FallbackResponse)

\* C6: when the service is enabled and the call of the generative model
\* fails, the response is the fallback response with no tool calls, the
\* processMessage call does not fail, and the stored context of the session
\* ends with the user message and the fallback assistant message.
C6_ModelFailureFallsBack ==
  (IsSome(lastCall) /\ isEnabled /\ Get(lastCall).aiOutcome = Some("throws")) =>
    LET call == Get(lastCall)
    IN /\ ~call.threw
       /\ call.response = Some(FallbackResponse)
       /\ call.toolCalls = <<>>
       /\ call.sessionId \in DOMAIN conversations
       /\ EndsWithExchange(conversations[call.sessionId].messages,
                           call.userMessage, FallbackResponse)
       /\ conversations[call.sessionId].current_intent = Some(call.intent)

\* the model failed in a call on a session that already had a stored context
C6_Witness ==
  /\ isEnabled
  /\ IsSome(lastCall)
  /\ Get(lastCall).aiCalled
  /\ Get(lastCall).aiOutcome = Some("throws")
  /\ IsSome(Get(lastCall).before)
  /\ Get(lastCall).response = Some(FallbackResponse)

\* the handler the claim C3 gives each tool name
C3_HandlerOf(name) ==
  CASE name = "query_products" -> "queryProducts"
    [] name = "create_cart" -> "createCart"
    [] name = "add_to_cart" -> "addToCart"
    [] name = "remove_from_cart" -> "removeFromCart"
    [] name = "begin_checkout" -> "beginCheckout"
    [] name = "order_status" -> "getOrderStatus"
    [] OTHER -> "none"

\* C3: a tool request is served by the one handler of its name; for any other
\* name, and for any error a handler throws, the CallTool handler does not
\* throw but returns a result with isError = true and the text
\* 'Error executing <name>: <message>'; every request gets a result.
C3_DispatchAndCatch ==
  IsSome(lastTool) =>
    LET call == Get(lastTool)
    IN /\ call.handler = C3_HandlerOf(call.name)
       /\ ~call.threw
       /\ IsSome(call.result)
       /\ call.name \notin ToolNames =>
            /\ call.thrown = Some(<<"Unknown tool: ", call.name>>)
            /\ call.before = carts
       /\ IsSome(call.thrown) =>
            /\ Get(call.result).isError
            /\ Get(call.result).text
                 = <<"Error executing ", call.name, ": ">> \o Get(call.thrown)
       /\ call.name = "create_cart" => ~Get(call.result).isError

\* a handler threw (checkout of an empty cart) and the request got the error
\* result
C3_Witness ==
  /\ IsSome(lastTool)
  /\ Get(lastTool).name = "begin_checkout"
  /\ Get(lastTool).thrown = Some(<<"Cannot checkout empty cart">>)
  /\ IsSome(Get(lastTool).result)
  /\ Get(Get(lastTool).result).isError

\* the result of a query_products request is the mock product list with the
\* query of the request echoed
C7_IsMockProducts(call) ==
  /\ IsSome(call.result)
  /\ ~Get(call.result).isError
  /\ Get(call.result).text.products = mockProducts
  /\ Len(Get(call.result).text.products) = 1
  /\ Get(call.result).text.total = 1
  /\ Get(call.result).text.query
       = (IF IsSome(call.args) THEN Get(call.args).query ELSE None)

\* the result of an order_status request is the mock order, fulfilled, with
\* the order id of the request
C7_IsMockOrder(call) ==
  /\ IsSome(call.result)
  /\ ~Get(call.result).isError
  /\ Get(call.result).text.order.status = "fulfilled"
  /\ Get(call.result).text.order.id
       = (IF IsSome(call.args) THEN Get(call.args).order_id ELSE None)

\* C7 as stated: no tool call reaches the real Shopify API; query_products
\* always returns the single mock product with total = 1 and the query of
\* the request echoed, order_status always a mock order with status
\* 'fulfilled' and the order id of the request.
C7_AlwaysMockData ==
  IsSome(lastTool) =>
    /\ ~shopifyCalled
    /\ Get(lastTool).name = "query_products" => C7_IsMockProducts(Get(lastTool))
    /\ Get(lastTool).name = "order_status" => C7_IsMockOrder(Get(lastTool))

\* C7 as amended: no tool call reaches the real Shopify API; a query_products
\* request that carries an arguments object gets the single mock product with
\* total = 1 and its query echoed, an order_status request that carries one
\* gets a mock order with status 'fulfilled' and its order id; a request of
\* either tool without an arguments object gets an isError result.
C7_MockDataGivenArguments ==
  IsSome(lastTool) =>
    LET call == Get(lastTool)
    IN /\ ~shopifyCalled
       /\ (call.name = "query_products" /\ IsSome(call.args))
            => C7_IsMockProducts(call)
       /\ (call.name = "order_status" /\ IsSome(call.args))
            => C7_IsMockOrder(call)
       /\ (call.name \in {"query_products", "order_status"} /\ ~IsSome(call.args))
            => (IsSome(call.result) /\ Get(call.result).isError)

\* a query_products request with a query and a limit answered with the mock
\* product
C7_Witness ==
  /\ IsSome(lastTool)
  /\ Get(lastTool).name = "query_products"
  /\ IsSome(Get(lastTool).args)
  /\ IsSome(Get(Get(lastTool).args).query)
  /\ IsSome(Get(Get(lastTool).args).limit)
  /\ C7_IsMockProducts(Get(lastTool))

\* C8: query_products returns at most limit products, limit being the limit
\* argument of the request and 10 when it is omitted, 0 included.
C8_AtMostLimitProducts ==
  (/\ IsSome(lastTool)
   /\ Get(lastTool).name = "query_products"
   /\ IsSome(Get(lastTool).args)
   /\ IsSome(Get(lastTool).result)
   /\ ~Get(Get(lastTool).result).isError) =>
    LET limit == Get(Get(lastTool).args).limit
    IN Len(Get(Get(lastTool).result).text.products)
         <= (IF IsSome(limit) THEN Get(limit) ELSE 10)

\* the request leaves out an argument the input schema of its tool requires
C9_OmitsRequired(call) ==
  \/ /\ call.name = "add_to_cart"
     /\ \/ ~IsSome(call.args)
        \/ ~IsSome(Get(call.args).cart_id)
        \/ ~IsSome(Get(call.args).items)
  \/ /\ call.name = "remove_from_cart"
     /\ \/ ~IsSome(call.args)
        \/ ~IsSome(Get(call.args).cart_id)
        \/ ~IsSome(Get(call.args).item_ids)

\* C9: an add_to_cart or remove_from_cart request that leaves out a required
\* argument gets an isError result and changes no cart, whatever the cart
\* store holds.
C9_MissingArgumentIsError ==
  (IsSome(lastTool) /\ C9_OmitsRequired(Get(lastTool))) =>
    /\ IsSome(Get(lastTool).result)
    /\ Get(Get(lastTool).result).isError
    /\ carts = Get(lastTool).before

\* the text s contains the text sub
Contains(s, sub) ==
  \E i \in 1..(Len(s) + 1) :
    /\ i + Len(sub) - 1 <= Len(s)
    /\ \A j \in 1..Len(sub) : s[i + j - 1] = sub[j]

\* the cart a begin_checkout request names, in the store before the request
C10_Exists(call) ==
  /\ IsSome(call.args)
  /\ IsSome(Get(call.args).cart_id)
  /\ Get(Get(call.args).cart_id) \in DOMAIN call.before
C10_CartBefore(call) == call.before[Get(Get(call.args).cart_id)]

\* C10: begin_checkout succeeds, with a checkout_url that contains the cart
\* id, exactly when the cart id is in the cart store and the cart has an item;
\* a request with an unknown cart id gets the error 'Cart not found', one for
\* an existing empty cart the error 'Cannot checkout empty cart'; the cart
\* store is never changed, and a successful request made again gives the same
\* result.
C10_BeginCheckout ==
  (IsSome(lastTool) /\ Get(lastTool).name = "begin_checkout") =>
    LET call == Get(lastTool)
        result == Get(call.result)
        again == callTool("begin_checkout", call.args, <<>>, None, carts, now)
    IN /\ IsSome(call.result)
       /\ carts = call.before
       /\ ~result.isError
            <=> (C10_Exists(call) /\ Len(C10_CartBefore(call).items) >= 1)
       /\ ~result.isError =>
            /\ Contains(result.text.checkout_url, Get(Get(call.args).cart_id))
            /\ again.result = call.result
            /\ again.carts = carts
       /\ (IsSome(call.args) /\ ~C10_Exists(call)) =>
            result.text = <<"Error executing ", "begin_checkout", ": ",
                            "Cart not found">>
       /\ (C10_Exists(call) /\ Len(C10_CartBefore(call).items) = 0) =>
            result.text = <<"Error executing ", "begin_checkout", ": ",
                            "Cannot checkout empty cart">>

\* a successful checkout of a cart that holds an item, after time has passed
\* since the cart was made
C10_Witness ==
  /\ IsSome(lastTool)
  /\ Get(lastTool).name = "begin_checkout"
  /\ IsSome(Get(lastTool).result)
  /\ ~Get(Get(lastTool).result).isError
  /\ C10_Exists(Get(lastTool))
  /\ Len(C10_CartBefore(Get(lastTool)).items) >= 1
  /\ now > C10_CartBefore(Get(lastTool)).created_at

\* the intent a quick action's label stands for
C14_IntentOfLabel(label) ==
  CASE label = "Browse Products" -> PRODUCT_SEARCH
    [] label = "View Cart" -> VIEW_CART
    [] label = "Checkout Help" -> CHECKOUT

\* C14: the message of every quick-action button is classified as the intent
\* of the button's label: 'Show me popular products' as PRODUCT_SEARCH, 'Show
\* me my cart' as VIEW_CART, 'Help me checkout' as CHECKOUT
C14_QuickActionIntent ==
  IsSome(fn_out) =>
    \A a \in QuickActions :
      fn_in = a.message => Get(fn_out).intent = C14_IntentOfLabel(a.label)

\* the positions of a '#' that a digit follows
C15_HashAt(m) == {i \in 1..(Len(m) - 1) : m[i] = "#" /\ m[i + 1] \in Digits}

\* the positions k of a digit that ends 'order', white space, in any case
C15_OrderDigitAt(m) ==
  {k \in 1..Len(m) :
     /\ m[k] \in Digits
     /\ \E i \in 1..Len(m) :
          /\ i + Len(kw_order) < k
          /\ SubSeq(toLowerCase(m), i, i + Len(kw_order) - 1) = kw_order
          /\ \A j \in (i + Len(kw_order))..(k - 1) : m[j] \in WhiteSpace}

\* the digits that start at position k
C15_DigitsFrom(m, k) ==
  SubSeq(m, k, CHOOSE e \in k..Len(m) :
                 /\ \A j \in k..e : m[j] \in Digits
                 /\ (e = Len(m) \/ m[e + 1] \notin Digits))

\* the order id the claim names: of '#<digits>' if the message has one, else
\* of 'order <digits>', else none
C15_Expected(m) ==
  IF C15_HashAt(m) # {} THEN Some(C15_DigitsFrom(m, Min(C15_HashAt(m)) + 1))
  ELSE IF C15_OrderDigitAt(m) # {}
       THEN Some(C15_DigitsFrom(m, Min(C15_OrderDigitAt(m))))
  ELSE None

\* C15: for a message classified ORDER_STATUS the reply carries exactly one
\* order_status tool call with the digits of the first matching pattern
\* ('#<digits>', then 'order <digits>') when the message has such a pattern,
\* and otherwise no tool call and the request for the order number
C15_OrderStatusToolCall ==
  (IsSome(fn_out) /\ Get(fn_out).intent = ORDER_STATUS) =>
    LET call == Get(fn_out)
        expected == C15_Expected(fn_in)
    IN IF IsSome(expected)
       THEN /\ call.toolCalls = <<[tool |-> "order_status",
                                   params |-> [order_id |-> Get(expected)]]>>
            /\ call.response = Some(OrderStatusResponse(Get(expected)))
       ELSE /\ call.toolCalls = <<>>
            /\ call.response = Some(AskOrderResponse)

\* an order is asked for with both patterns in the message, 'order 7' before
\* '#1', and the id of '#1' is the one looked up
C15_Witness ==
  /\ IsSome(fn_out)
  /\ Get(fn_out).intent = ORDER_STATUS
  /\ C15_HashAt(fn_in) # {}
  /\ C15_OrderDigitAt(fn_in) # {}
  /\ Min(C15_OrderDigitAt(fn_in)) < Min(C15_HashAt(fn_in))
  /\ Len(Get(fn_out).toolCalls) = 1
  /\ Get(fn_out).toolCalls[1].params.order_id = <<"1">>

\* whether the phrase occurs in the message, in any case, with a character
\* of the same line after it, and where it first does
C16_PhraseAt(m, phrase) ==
  {i \in 1..Len(m) :
     /\ i + Len(phrase) <= Len(m)
     /\ SubSeq(toLowerCase(m), i, i + Len(phrase) - 1) = phrase
     /\ m[i + Len(phrase)] \notin LineTerminators}

\* the rest of the line from position k on
C16_LineFrom(m, k) ==
  SubSeq(m, k, CHOOSE e \in k..Len(m) :
                 /\ \A j \in k..e : m[j] \notin LineTerminators
                 /\ (e = Len(m) \/ m[e + 1] \in LineTerminators))

\* the text without the white space around it
C16_Trimmed(s) ==
  LET inked == {i \in 1..Len(s) : s[i] \notin WhiteSpace}
  IN IF inked = {} THEN <<>>
     ELSE SubSeq(s, Min(inked), CHOOSE e \in inked : \A i \in inked : i <= e)

\* the query the claim names: the trimmed capture of the first phrase pattern
\* that matches, or with no match the lower-cased message without the stop
\* words; None when no word is left
C16_Expected(m) ==
  LET matching == {k \in 1..Len(searchPatterns) :
                     C16_PhraseAt(m, searchPatterns[k]) # {}}
      first == searchPatterns[Min(matching)]
      kept == SelectSeq(split(toLowerCase(m), " "), LAMBDA w : w \notin stopWords)
  IN IF matching # {}
     THEN Some(C16_Trimmed(C16_LineFrom(m, Min(C16_PhraseAt(m, first))
                                           + Len(first))))
     ELSE IF kept = <<>> THEN None ELSE Some(join(kept, <<" ">>))

\* C16: for a message classified PRODUCT_SEARCH the reply carries exactly one
\* query_products tool call with limit 5 and the extracted query when that
\* query is not empty, and otherwise no tool call and the question what the
\* shopper is looking for; no query_products call has an empty query
C16_ProductSearchToolCall ==
  (IsSome(fn_out) /\ Get(fn_out).intent = PRODUCT_SEARCH) =>
    LET call == Get(fn_out)
        expected == C16_Expected(fn_in)
    IN /\ IF IsSome(expected) /\ Get(expected) # <<>>
          THEN /\ call.toolCalls = <<[tool |-> "query_products",
                                      params |-> [query |-> Get(expected),
                                                  limit |-> 5]]>>
               /\ call.response = Some(SearchResponse(Get(expected)))
          ELSE /\ call.toolCalls = <<>>
               /\ call.response = Some(AskSearchResponse)
       /\ \A i \in 1..Len(call.toolCalls) :
            call.toolCalls[i].tool = "query_products"
              => call.toolCalls[i].params.query # <<>>

\* a phrase pattern matched and its capture was only white space: the
\* shopper is asked what to look for
C16_Witness ==
  /\ IsSome(fn_out)
  /\ Get(fn_out).intent = PRODUCT_SEARCH
  /\ \E k \in 1..Len(searchPatterns) : C16_PhraseAt(fn_in, searchPatterns[k]) # {}
  /\ Get(fn_out).toolCalls = <<>>
  /\ Get(fn_out).response = Some(AskSearchResponse)

\* the cutoff of a cleanup call: now - maxAgeHours hours
C11_Cutoff(op) ==
  op.at - (IF IsSome(op.maxAgeHours) THEN Get(op.maxAgeHours) ELSE 24)

\* C11: cleanupOldConversations(maxAgeHours) removes exactly the sessions
\* whose last_activity is strictly earlier than now - maxAgeHours hours and
\* leaves every other session's context as it was; a session whose
\* last_activity equals the cutoff is kept
C11_CleanupRemovesOlder ==
  (IsSome(lastOp) /\ Get(lastOp).op = "cleanupOldConversations"
     /\ Get(lastOp).calls = calls) =>
    LET op == Get(lastOp) IN
    /\ DOMAIN conversations \subseteq DOMAIN op.before
    /\ \A id \in DOMAIN op.before :
         /\ id \notin DOMAIN conversations
              <=> op.before[id].last_activity < C11_Cutoff(op)
         /\ op.before[id].last_activity = C11_Cutoff(op)
              => id \in DOMAIN conversations
         /\ id \in DOMAIN conversations => conversations[id] = op.before[id]

\* a cleanup removed a session older than the cutoff and kept one whose
\* last_activity is the cutoff
C11_Witness ==
  /\ IsSome(lastOp)
  /\ Get(lastOp).op = "cleanupOldConversations"
  /\ Get(lastOp).calls = calls
  /\ \E old, kept \in DOMAIN Get(lastOp).before :
       /\ Get(lastOp).before[old].last_activity < C11_Cutoff(Get(lastOp))
       /\ old \notin DOMAIN conversations
       /\ Get(lastOp).before[kept].last_activity = C11_Cutoff(Get(lastOp))
       /\ kept \in DOMAIN conversations

\* C12: clearConversation(s) removes only session s: getConversationContext(s)
\* is undefined afterwards, every other session's context is as it was,
\* clearing an absent session changes nothing, and the next processMessage(s, m)
\* without existingContext starts from an empty history
C12_ClearRemovesOnlySession ==
  (IsSome(lastOp) /\ Get(lastOp).op = "clearConversation") =>
    LET op == Get(lastOp) IN
    /\ op.calls = calls =>
         /\ getConversationContext(conversations, op.sessionId) = None
         /\ \A id \in DOMAIN op.before \ {op.sessionId} :
              getConversationContext(conversations, id) = Some(op.before[id])
         /\ DOMAIN conversations \subseteq DOMAIN op.before
         /\ op.sessionId \notin DOMAIN op.before => conversations = op.before
    /\ (/\ op.calls + 1 = calls
        /\ Get(lastCall).sessionId = op.sessionId
        /\ Get(lastCall).existingContext = None) =>
         /\ Len(conversations[op.sessionId].messages) = 2
         /\ EndsWithExchange(conversations[op.sessionId].messages,
                             Get(lastCall).userMessage,
                             Get(Get(lastCall).response))

\* a session with a history was cleared and then sent a message without
\* existingContext: its stored history is that one exchange
C12_Witness ==
  /\ IsSome(lastOp)
  /\ Get(lastOp).op = "clearConversation"
  /\ Get(lastOp).sessionId \in DOMAIN Get(lastOp).before
  /\ Len(Get(lastOp).before[Get(lastOp).sessionId].messages) >= 2
  /\ Get(lastOp).calls + 1 = calls
  /\ Get(lastCall).sessionId = Get(lastOp).sessionId
  /\ Get(lastCall).existingContext = None
  /\ Len(conversations[Get(lastOp).sessionId].messages) = 2

\* the chat window shows a loading placeholder
C13_ShowsLoading == \E i \in 1..Len(messages) : messages[i].isLoading

C17_BothReturned ==
  /\ \A c \in CallIds : inflight[c].pc = "returned"
  /\ inflight["a"].sessionId = inflight["b"].sessionId
  /\ \/ "a" \in inflight["b"].inFlightAtStart
     \/ "b" \in inflight["a"].inFlightAtStart

\* the stored history of the session the two calls were made for
C17_Stored == heap[conversationRefs[inflight["a"].sessionId]].messages

\* C17: when two processMessage calls for one session are in flight at once,
\* the user messages of both calls and both assistant replies are in the
\* session's stored context after both calls returned, also when the session
\* had no stored context before the first call
C17_ConcurrentCallsKeepMessages ==
  C17_BothReturned =>
    \E ua, ub, ra, rb \in 1..Len(C17_Stored) :
      /\ Cardinality({ua, ub, ra, rb}) = 4
      /\ C17_Stored[ua].role = "user"
      /\ C17_Stored[ua].content = inflight["a"].userMessage
      /\ C17_Stored[ub].role = "user"
      /\ C17_Stored[ub].content = inflight["b"].userMessage
      /\ C17_Stored[ra].role = "assistant"
      /\ C17_Stored[ra].content = Get(inflight["a"].generated).response
      /\ C17_Stored[rb].role = "assistant"
      /\ C17_Stored[rb].content = Get(inflight["b"].generated).response

====
